---- MODULE Spec2Model ----
(***************************************************************************)
(* Taildrop (src/taildrop.py): the TTL-bounded device cache                *)
(* (Taildrop.get_devices / invalidate_cache), the device-list derivation   *)
(* from a `tailscale status --json` payload, the fire-and-forget           *)
(* dispatcher (send_files / receive_files) and the _notify helper.         *)
(*                                                                         *)
(* Strings are sequences of character codes, so that str.lower(),          *)
(* str.split(".") and the lexicographic comparison of list.sort() are      *)
(* computed and not assumed.  A JSON object is a function whose DOMAIN is   *)
(* the set of keys that are present.                                       *)
(***************************************************************************)
EXTENDS Integers, Sequences, FiniteSets, TLC

\* ------------------------------------------------------------------ bounds

\* The monotonic clock is observed in steps of ClockStep seconds, up to MaxTime.
MaxTime == 20
ClockStep == 5

\* ------------------------------------------------------- program constants

CACHE_TTL == 15

\* "funnel-ingress-node"
IngressHostName ==
    <<102, 117, 110, 110, 101, 108, 45, 105, 110, 103, 114, 101, 115, 115,
      45, 110, 111, 100, 101>>

\* "Unknown"
UnknownName == <<85, 110, 107, 110, 111, 119, 110>>

\* The icons of a label: U+1F7E2 (green circle) and U+1F534 (red circle).
IconOnline == <<128994>>
IconOffline == <<128308>>

\* Python's None, where an integer (a UserID) is expected.
NoneVal == 0 - 1

\* ------------------------------------------------------------ str helpers

\* str.lower() on ASCII text.
Lower(s) == [i \in DOMAIN s |-> IF s[i] \in 65..90 THEN s[i] + 32 ELSE s[i]]

\* s < t for Python strings (lexicographic on code points).
RECURSIVE StrLess(_, _)
StrLess(s, t) ==
    IF t = <<>> THEN FALSE
    ELSE IF s = <<>> THEN TRUE
    ELSE IF s[1] # t[1] THEN s[1] < t[1]
    ELSE StrLess(Tail(s), Tail(t))

\* s.split(".")[0]: the text before the first "." (code 46).
RECURSIVE FirstLabel(_)
FirstLabel(s) ==
    IF s = <<>> \/ s[1] = 46 THEN <<>>
    ELSE <<s[1]>> \o FirstLabel(Tail(s))

\* dict.get(key, default)
Get(d, k, default) == IF k \in DOMAIN d THEN d[k] ELSE default

\* Truth value of an optional integer: None and 0 are falsy.
Truthy(x) == x # NoneVal /\ x # 0

\* ------------------------------------------------------ device-list builder

\* Lines 119-124: the peers that are skipped.
SkipPeer_KeepIngress(self_user_id, data) ==
    Truthy(self_user_id) /\ Get(data, "UserID", NoneVal) # self_user_id

SkipPeer(self_user_id, data) ==
    \/ Get(data, "HostName", <<>>) = IngressHostName
    \/ Truthy(self_user_id) /\ Get(data, "UserID", NoneVal) # self_user_id

\* Lines 126-129: the display name of a peer.
CleanName(data) ==
    LET dns == Get(data, "DNSName", <<>>)
        name == IF dns # <<>> THEN FirstLabel(dns)
                ELSE Get(data, "HostName", UnknownName)
    IN  IF name = <<>> THEN UnknownName ELSE name

\* Lines 131-140: the item appended for a peer that is kept.
Item(data) ==
    LET os_name == Get(data, "OS", <<>>)
        is_online == Get(data, "Online", FALSE)
        status_icon == IF is_online THEN IconOnline ELSE IconOffline
        os_part == IF os_name # <<>> THEN <<32, 40>> \o os_name \o <<41>>
                   ELSE <<>>
    IN  [hostname |-> CleanName(data),
         label |-> status_icon \o <<32>> \o CleanName(data) \o os_part,
         is_online |-> is_online]

\* Line 143: the sort key (not is_online, hostname.lower()), compared as a tuple.
KeyLess_CaseSensitive(x, y) ==
    \/ x.is_online /\ ~y.is_online
    \/ x.is_online = y.is_online /\ StrLess(x.hostname, y.hostname)

KeyLess(x, y) ==
    \/ x.is_online /\ ~y.is_online
    \/ x.is_online = y.is_online /\ StrLess(Lower(x.hostname), Lower(y.hostname))

\* list.sort() is stable: an item goes after every item whose key is not greater.
RECURSIVE InsertSorted(_, _)
InsertSorted(x, sorted) ==
    IF sorted = <<>> THEN <<x>>
    ELSE IF KeyLess(x, sorted[1]) THEN <<x>> \o sorted
    ELSE <<sorted[1]>> \o InsertSorted(x, Tail(sorted))

RECURSIVE SortItems(_)
SortItems(items) ==
    IF items = <<>> THEN <<>>
    ELSE InsertSorted(items[Len(items)], SortItems(SubSeq(items, 1, Len(items) - 1)))

\* Lines 116-140: the loop over status["Peer"], in the payload's order.
RECURSIVE CollectItems(_, _)
CollectItems(self_user_id, peers) ==
    IF peers = <<>> THEN <<>>
    ELSE (IF SkipPeer(self_user_id, peers[1]) THEN <<>> ELSE <<Item(peers[1])>>)
         \o CollectItems(self_user_id, Tail(peers))

\* Lines 114-143: the device list built from a well-formed status object.
BuildItems(status) ==
    LET self_user_id == Get(Get(status, "Self", <<>>), "UserID", NoneVal)
    IN  SortItems(CollectItems(self_user_id, Get(status, "Peer", <<>>)))

\* ------------------------------------------------- status query results

\* Strings used by the payloads: "a", "B", "c", "d", "e", "x", "B.n" and "l".
Str_a == <<97>>
Str_B == <<66>>
Str_c == <<99>>
Str_d == <<100>>
Str_e == <<101>>
Str_x == <<120>>
Dns_B == <<66, 46, 110>>
Os_l == <<108>>

\* Well-formed status objects, as json.loads() returns them (line 107).
StatusOne ==
    [Self |-> [UserID |-> 1],
     Peer |-> << [HostName |-> Str_a, OS |-> Os_l, Online |-> TRUE, UserID |-> 1] >>]

StatusMany ==
    [Self |-> [UserID |-> 1],
     Peer |-> << [HostName |-> Str_c, Online |-> FALSE, UserID |-> 1],
                 [HostName |-> Str_x, DNSName |-> Dns_B, Online |-> TRUE, UserID |-> 1],
                 [HostName |-> Str_a, OS |-> Os_l, Online |-> TRUE, UserID |-> 1],
                 [HostName |-> IngressHostName, Online |-> TRUE, UserID |-> 1],
                 [HostName |-> Str_d, Online |-> TRUE, UserID |-> 2],
                 [HostName |-> Str_e, Online |-> TRUE] >>]

StatusNoPeers == [Self |-> [UserID |-> 1], Peer |-> <<>>]

StatusAllFiltered ==
    [Self |-> [UserID |-> 1],
     Peer |-> << [HostName |-> IngressHostName, DNSName |-> Dns_B, OS |-> Os_l,
                  Online |-> FALSE, UserID |-> 1],
                 [HostName |-> Str_d, Online |-> TRUE, UserID |-> 2] >>]

StatusNoSelf ==
    [Peer |-> << [HostName |-> Str_d, Online |-> TRUE, UserID |-> 2],
                 [HostName |-> Str_a, OS |-> Os_l, Online |-> TRUE, UserID |-> 1] >>]

WellFormed ==
    {StatusOne, StatusMany, StatusNoPeers, StatusAllFiltered, StatusNoSelf}

\* What subprocess.run([TAILSCALE_BIN, "status", "--json"], timeout=5) can end
\* with (lines 82-111), and for exit status 0 the form of its stdout:
\*   notjson         json.loads raises JSONDecodeError
\*   nonobject       valid JSON whose top level is not an object
\*   self_null       "Self" is null
\*   peer_null       "Peer" is null
\*   peer_nonobject  a peer record is not an object
\*   wellformed      one of WellFormed
BadForms == {"notjson", "nonobject", "self_null", "peer_null", "peer_nonobject"}

QueryResults ==
    {[outcome |-> o, form |-> "none", status |-> StatusNoPeers] :
        o \in {"timeout", "oserror", "nonzero"}}
    \cup {[outcome |-> "exit0", form |-> f, status |-> StatusNoPeers] : f \in BadForms}
    \cup {[outcome |-> "exit0", form |-> "wellformed", status |-> st] : st \in WellFormed}

\* The device list of each well-formed status object.
Built == [st \in WellFormed |-> BuildItems(st)]

\* Lines 114-140 raise AttributeError on these forms (None.get, None.items,
\* list.get, str.get); nothing catches it inside get_devices.
BuildRaises(q) == q.form \in {"nonobject", "self_null", "peer_null", "peer_nonobject"}

\* The path a get_devices() call that issued the status query ends on.
QueryPath(q) ==
    IF q.outcome = "timeout" THEN "timeout"
    ELSE IF q.outcome = "oserror" THEN "oserror"
    ELSE IF q.outcome = "nonzero" THEN "nonzero"
    ELSE IF q.form = "notjson" THEN "badjson"
    ELSE IF BuildRaises(q) THEN "badshape"
    ELSE "ok"

FailPaths == {"timeout", "oserror", "nonzero", "badjson"}

\* ------------------------------------------------------------ environment

\* How launching systemd-run ends: it starts and exits 0 ("ok"), starts and exits
\* with an error ("error"), is not found (FileNotFoundError, "missing"), or
\* cannot be executed (another OSError, "broken").
SdStates == {"ok", "error", "missing", "broken"}

\* Whether a program started with subprocess.Popen (notify-send, TAILSCALE_BIN) exists.
BinStates == {"ok", "missing"}

\* The targets of send_files and its numbers of paths.
Hosts == {Str_a, Str_B}
MaxPaths == 2

\* Lines 28-40, _notify: "wait" when subprocess.run started systemd-run and waits
\* for it to exit, "done" when the Popen fallback started notify-send, "raise"
\* when an exception leaves _notify (only FileNotFoundError of subprocess.run is
\* caught, and the fallback Popen is unguarded).
NotifyOutcome(sd, ns) ==
    IF sd \in {"ok", "error"} THEN "wait"
    ELSE IF sd = "broken" THEN "raise"
    ELSE IF ns = "ok" THEN "done"
    ELSE "raise"

NotifyOutcomes == {NotifyOutcome(sd, ns) : sd \in SdStates, ns \in BinStates}

\* Lines 158-165 and 184-192, the spawn of the command: the launches attempted,
\* whether the command runs, and how the call goes on: "wait" in subprocess.run
\* for systemd-run to exit, "return" after Popen, or "raise" (only
\* FileNotFoundError of subprocess.run is caught, and the fallback Popen is
\* unguarded).  sd: systemd-run; ts: TAILSCALE_BIN as the spawn finds it.
SpawnOutcome(sd, ts) ==
    IF sd \in {"ok", "error"} THEN
        [spawns |-> <<"supervised">>,
         child |-> IF sd = "ok" /\ ts = "ok" THEN "running" ELSE "none",
         goes |-> "wait"]
    ELSE IF sd = "broken" THEN
        [spawns |-> <<"supervised">>, child |-> "none", goes |-> "raise"]
    ELSE
        [spawns |-> <<"supervised", "direct">>,
         child |-> IF ts = "ok" THEN "running" ELSE "none",
         goes |-> IF ts = "ok" THEN "return" ELSE "raise"]

SpawnOutcomes == {SpawnOutcome(sd, ts) : sd \in SdStates, ts \in BinStates}

\* Lines 159-163 and 185-189: the process whose exit subprocess.run waits for.
\* systemd-run --no-block exits once the job is queued, whatever the job does.
DispatchAwaits_Child == "child"

DispatchAwaits == "launcher"

\* ------------------------------------------------------------------ state

VARIABLES
    devices_cache,              \* Taildrop._devices_cache
    last_cache_time,            \* Taildrop._last_cache_time
    tailscale_missing_warned,   \* Taildrop._tailscale_missing_warned
    now,                        \* time.monotonic()
    pc,                         \* where the caller is: "idle", or blocked in the
                                \* subprocess.run of "notify" or of "dispatch"
    kont,                       \* the frame _notify returns to
    last,                       \* the latest call of an entry point
    hist                        \* what earlier calls did: see HistAfter

vars ==
    <<devices_cache, last_cache_time, tailscale_missing_warned, now, pc, kont,
      last, hist>>

cacheVars == <<devices_cache, last_cache_time, tailscale_missing_warned>>

\* A call: its entry point (op); for get_devices the path it took, the clock it
\* read (at, line 74), the status queries it issued, the status object it
\* built a list from (status: none or one) and the list it returned (ret); for
\* send_files its arguments (npaths, host); the notifications it
\* emitted (notes), the launches of the command it attempted (spawns), the
\* command it started (child) and how it ended (result).
NoCall ==
    [op |-> "none", path |-> "none", at |-> 0, queries |-> 0, status |-> {},
     ret |-> <<>>,
     npaths |-> 0, host |-> <<>>, notes |-> <<>>, spawns |-> <<>>,
     child |-> "none", result |-> "none"]

\* Lines 52-55: the class attributes, and the clock at its reference point.
Init ==
    /\ devices_cache = <<>>
    /\ last_cache_time = 0
    /\ tailscale_missing_warned = FALSE
    /\ now = 0
    /\ pc = "idle"
    /\ kont = "none"
    /\ last = NoCall
    /\ hist = [streak |-> 0 - 1, warns |-> 0, fresh |-> 0 - 1]

\* ------------------------------------------------------------ get_devices

\* Line 75: the cache-hit test.
CacheHit_Reversed(t, lct, cache) == t - lct > CACHE_TTL /\ cache # <<>>

CacheHit(t, lct, cache) == t - lct < CACHE_TTL /\ cache # <<>>

\* Lines 75-111: the path of a call, from the cache, the availability of the
\* binary (line 78) and the result of the status query.
GetPath_CheckFirst(t, avail, q) ==
    IF ~avail THEN "missing"
    ELSE IF CacheHit(t, last_cache_time, devices_cache) THEN "hit"
    ELSE QueryPath(q)

GetPath(t, avail, q) ==
    IF CacheHit(t, last_cache_time, devices_cache) THEN "hit"
    ELSE IF ~avail THEN "missing"
    ELSE QueryPath(q)

\* Lines 83-89: the number of status queries a call on this path issues.
QueriesOf(path) == IF path \in {"hit", "missing"} THEN 0 ELSE 1

\* Lines 61-62, 91, 95, 101, 109: whether the path calls _notify.
WantsNote(path, warned) ==
    \/ path = "missing" /\ ~warned
    \/ path \in FailPaths

\* Lines 145-146 against 76, 80, 93, 97, 104, 111: the list and the capture time
\* a call leaves stored.
StoredList_WipeOnFailure(path, q, cache) ==
    IF path = "ok" THEN Built[q.status]
    ELSE IF path \in FailPaths THEN <<>>
    ELSE cache

StoredList(path, q, cache) == IF path = "ok" THEN Built[q.status] ELSE cache

StoredTime_OnEveryQuery(path, t, lct) == IF QueriesOf(path) = 1 THEN t ELSE lct

StoredTime(path, t, lct) == IF path = "ok" THEN t ELSE lct

\* Lines 65 and 147: the flag after a call whose _notify (if any) has returned.
WarnedAfter_NeverSet(path, warned) == IF path = "ok" THEN FALSE ELSE warned

WarnedAfter_ClearOnPresent(path, warned) ==
    IF path \in {"ok"} \cup FailPaths THEN FALSE
    ELSE IF path = "missing" THEN TRUE
    ELSE warned

WarnedAfter(path, warned) ==
    IF path = "ok" THEN FALSE
    ELSE IF path = "missing" THEN TRUE
    ELSE warned

\* What earlier calls did.  The counts of missing-binary notifications: `streak`
\* within the current run of calls that found the binary absent (-1 outside
\* such a run), `warns` since the last successful refresh; both stop counting
\* at 2.  `fresh`: the clock read by the last call whose status query succeeded
\* and yielded a non-empty list, -1 if there is none or invalidate_cache() was
\* called since.
Bump(n) == IF n < 2 THEN n + 1 ELSE n

HistAfter(path, emitted, t, stored) ==
    IF path = "hit" THEN hist
    ELSE IF path = "missing" THEN
        LET s == IF hist.streak < 0 THEN 0 ELSE hist.streak
        IN  [hist EXCEPT !.streak = IF emitted THEN Bump(s) ELSE s,
                         !.warns = IF emitted THEN Bump(hist.warns) ELSE hist.warns]
    ELSE IF path = "ok" THEN
        [streak |-> 0 - 1, warns |-> 0,
         fresh |-> IF stored # <<>> THEN t ELSE 0 - 1]
    ELSE [hist EXCEPT !.streak = 0 - 1]

\* Lines 73-148.  avail: _tailscale_available(); q: the status query's result;
\* no: how _notify goes, if it is called.
GetDevices(avail, q, no) ==
    /\ pc = "idle"
    /\ LET t == now
           path == GetPath(t, avail, q)
           noted == WantsNote(path, tailscale_missing_warned)
           waits == noted /\ no = "wait"
           raised == (noted /\ no = "raise") \/ path = "badshape"
           emitted == noted /\ no # "raise"
       IN  /\ devices_cache' = StoredList(path, q, devices_cache)
           /\ last_cache_time' = StoredTime(path, t, last_cache_time)
           /\ tailscale_missing_warned' =
                  IF waits \/ raised THEN tailscale_missing_warned
                  ELSE WarnedAfter(path, tailscale_missing_warned)
           /\ pc' = IF waits THEN "notify" ELSE "idle"
           /\ kont' = IF ~waits THEN "none"
                      ELSE IF path = "missing" THEN "_warn_missing"
                      ELSE "get_devices"
           /\ last' = [NoCall EXCEPT
                         !.op = "get_devices", !.path = path, !.at = t,
                         !.queries = QueriesOf(path),
                         !.status = IF path = "ok" THEN {q.status} ELSE {},
                         !.notes = IF emitted THEN <<path>> ELSE <<>>,
                         !.result = IF waits THEN "running"
                                    ELSE IF raised THEN "raised" ELSE "returned",
                         !.ret = IF waits \/ raised THEN <<>>
                                 ELSE StoredList(path, q, devices_cache)]
           /\ hist' = HistAfter(path, emitted, t, StoredList(path, q, devices_cache))
    /\ UNCHANGED now

\* Lines 68-70.
InvalidateCache_ClearsList ==
    /\ pc = "idle"
    /\ last_cache_time' = 0
    /\ devices_cache' = <<>>
    /\ last' = [NoCall EXCEPT !.op = "invalidate_cache", !.result = "returned"]
    /\ hist' = [hist EXCEPT !.fresh = 0 - 1]
    /\ UNCHANGED <<tailscale_missing_warned, now, pc, kont>>

InvalidateCache ==
    /\ pc = "idle"
    /\ last_cache_time' = 0
    /\ last' = [NoCall EXCEPT !.op = "invalidate_cache", !.result = "returned"]
    /\ hist' = [hist EXCEPT !.fresh = 0 - 1]
    /\ UNCHANGED <<devices_cache, tailscale_missing_warned, now, pc, kont>>

\* ------------------------------------------------ send_files, receive_files

\* Line 171: the empty-input guard.
SendIsNoop_Never(n) == FALSE

SendIsNoop(n) == n = 0

\* Lines 158-165 and 184-192, from a call `d` whose _notify has returned.
Dispatch(d, sp) ==
    /\ last' = [d EXCEPT !.spawns = sp.spawns, !.child = sp.child,
                         !.result = IF sp.goes = "wait" THEN "running"
                                    ELSE IF sp.goes = "raise" THEN "raised"
                                    ELSE "returned"]
    /\ pc' = IF sp.goes = "wait" THEN "dispatch" ELSE "idle"
    /\ kont' = "none"

\* Lines 155-156 and 174-180, then the dispatch: the call `d` from its _notify on.
NotifyThenDispatch(d, kind, no, sp) ==
    LET noted == [d EXCEPT !.notes = <<kind>>]
    IN  IF no = "raise" THEN
            /\ last' = [d EXCEPT !.result = "raised"]
            /\ pc' = "idle"
            /\ kont' = "none"
        ELSE IF no = "wait" THEN
            /\ last' = noted
            /\ pc' = "notify"
            /\ kont' = d.op
        ELSE Dispatch(noted, sp)

\* Lines 170-192.  n: len(paths).
SendFiles(n, host, no, sp) ==
    /\ pc = "idle"
    /\ LET d == [NoCall EXCEPT !.op = "send_files", !.npaths = n,
                               !.host = host, !.result = "running"]
       IN  IF SendIsNoop(n) THEN
               /\ last' = [d EXCEPT !.result = "returned"]
               /\ UNCHANGED <<pc, kont>>
           ELSE NotifyThenDispatch(d, IF n = 1 THEN "sending_one" ELSE "sending_many",
                                   no, sp)
    /\ UNCHANGED <<cacheVars, now, hist>>

\* Lines 153-165.
ReceiveFiles(no, sp) ==
    /\ pc = "idle"
    /\ NotifyThenDispatch([NoCall EXCEPT !.op = "receive_files",
                                         !.result = "running"],
                          "receiving", no, sp)
    /\ UNCHANGED <<cacheVars, now, hist>>

\* ------------------------------------------------------- external processes

\* systemd-run exits and subprocess.run returns (check=False: whatever its status).
\* _notify returns to _warn_missing (line 65), to get_devices (lines 93, 97, 104,
\* 111) or to the dispatch of send_files / receive_files.
NotifyReturns(sp) ==
    /\ pc = "notify"
    /\ IF kont \in {"_warn_missing", "get_devices"} THEN
           /\ tailscale_missing_warned' =
                  IF kont = "_warn_missing"
                  THEN WarnedAfter("missing", tailscale_missing_warned)
                  ELSE tailscale_missing_warned
           /\ last' = [last EXCEPT !.result = "returned", !.ret = devices_cache]
           /\ pc' = "idle"
           /\ kont' = "none"
           /\ UNCHANGED <<devices_cache, last_cache_time>>
       ELSE
           /\ Dispatch(last, sp)
           /\ UNCHANGED cacheVars
    /\ UNCHANGED <<now, hist>>

\* The subprocess.run of the dispatch returns when the process it waits for exits.
DispatchReturns ==
    /\ pc = "dispatch"
    /\ DispatchAwaits = "launcher"
    /\ last' = [last EXCEPT !.result = "returned"]
    /\ pc' = "idle"
    /\ UNCHANGED <<cacheVars, now, kont, hist>>

\* The transfer command ends, some time after it was started or never.
ChildExit ==
    /\ last.child = "running"
    /\ LET resumes == pc = "dispatch" /\ DispatchAwaits = "child"
       IN  /\ last' = [last EXCEPT !.child = "exited",
                                   !.result = IF resumes THEN "returned" ELSE @]
           /\ pc' = IF resumes THEN "idle" ELSE pc
    /\ UNCHANGED <<cacheVars, now, kont, hist>>

\* Time passes, whatever the caller is doing.
Tick ==
    /\ now + ClockStep <= MaxTime
    /\ now' = now + ClockStep
    /\ UNCHANGED <<cacheVars, pc, kont, last, hist>>

\* ------------------------------------------------------- the specification

CallGetDevices ==
    \E avail \in BOOLEAN, q \in QueryResults, no \in NotifyOutcomes :
        GetDevices(avail, q, no)

CallSendFiles ==
    \E n \in 0..MaxPaths, host \in Hosts, no \in NotifyOutcomes, sp \in SpawnOutcomes :
        SendFiles(n, host, no, sp)

CallReceiveFiles ==
    \E no \in NotifyOutcomes, sp \in SpawnOutcomes : ReceiveFiles(no, sp)

LauncherExit ==
    \/ \E sp \in SpawnOutcomes : NotifyReturns(sp)
    \/ DispatchReturns

Next ==
    \/ CallGetDevices
    \/ InvalidateCache
    \/ CallSendFiles
    \/ CallReceiveFiles
    \/ LauncherExit
    \/ ChildExit
    \/ Tick

Spec == Init /\ [][Next]_vars

\* systemd-run --no-block does not wait for the job it queues, so it exits;
\* nothing makes the transfer command end.
FairSpec == Spec /\ WF_vars(LauncherExit)

\* ------------------------------------------------------------------ claims

Range(seq) == {seq[i] : i \in DOMAIN seq}

\* A step of a get_devices() call: the call itself, or its return from _notify.
GetStep == last' # last /\ last'.op = "get_devices"

\* The step on which a get_devices() call is made.
GetStarts == GetStep /\ pc = "idle"

\* C1. Stale-on-failure: a get_devices() call whose refresh fails (timeout, launch
\* error, non-zero exit, invalid JSON) leaves the stored list and its capture
\* time as they were, and the list it returns is the list stored before the call.
C1_StaleOnFailure ==
    [][(GetStep /\ last'.path \in FailPaths) =>
          /\ devices_cache' = devices_cache
          /\ last_cache_time' = last_cache_time
          /\ (last'.result = "returned" => last'.ret = devices_cache)]_vars

\* A failed refresh has returned a list stored by an earlier successful one.
C1_Witness ==
    /\ last.op = "get_devices" /\ last.path \in FailPaths
    /\ last.result = "returned" /\ last.ret # <<>>
    /\ last.at > last_cache_time

\* C2, as claimed: the stored list is replaced only by a get_devices() call whose
\* refresh succeeded and whose parse yielded a non-empty list.
C2_OnlyNonEmptyReplaces ==
    [][devices_cache' # devices_cache =>
          GetStep /\ last'.path = "ok" /\ devices_cache' # <<>>]_vars

\* C2, amended: the stored list is replaced only by a get_devices() call whose
\* refresh succeeded, by the list that call returns, empty or not.
C2_OnlySuccessReplaces ==
    [][devices_cache' # devices_cache =>
          /\ GetStep /\ last'.path = "ok" /\ last'.result = "returned"
          /\ devices_cache' = last'.ret]_vars

\* A successful refresh that yielded no device has stored the empty list.
C2_Witness ==
    /\ last.op = "get_devices" /\ last.path = "ok" /\ last.result = "returned"
    /\ devices_cache = <<>> /\ last_cache_time = last.at /\ last.at > 0

\* C3, as claimed: two get_devices() calls made less than TTL apart, with no
\* invalidate_cache() between them, issue at most one status query in total.
\* Stated for a first call that returned normally.
C3_TwoCallsOneQuery ==
    [][(/\ GetStarts /\ last.op = "get_devices" /\ last.result = "returned"
        /\ now - last.at < CACHE_TTL) =>
          last.queries + last'.queries <= 1]_vars

\* C3, amended: they issue at most one status query in total unless the first
\* call issued one that failed or yielded an empty list.  A call issues at most
\* one query, and none when it is made less than TTL after a call whose query
\* succeeded and yielded a non-empty list, with no invalidate_cache() since.
C3_TwoCallsOneQueryAfterSuccess ==
    [][GetStarts =>
          /\ last'.queries <= 1
          /\ (hist.fresh >= 0 /\ now - hist.fresh < CACHE_TTL) => last'.queries = 0
          /\ (/\ last.op = "get_devices" /\ now - last.at < CACHE_TTL
              /\ ~(last.queries = 1 /\ (last.path # "ok" \/ last.ret = <<>>))) =>
                last.queries + last'.queries <= 1]_vars

\* A call made after a successful refresh, less than TTL later, was served from
\* the cache.
C3_Witness ==
    /\ last.op = "get_devices" /\ last.path = "hit" /\ last.queries = 0
    /\ last_cache_time > 0 /\ last.at > last_cache_time

\* C4. get_devices() is total: it never ends with an exception.  Stated for the
\* calls that emit no notification, whose failure is another matter.
C4_GetDevicesTotal ==
    (last.op = "get_devices" /\ ~WantsNote(last.path, FALSE)) => last.result # "raised"

\* C5. send_files() and receive_files() are total: they never end with an
\* exception.  Stated for the calls that took the direct-spawn fallback.
C5_DispatchTotal ==
    (last.op \in {"send_files", "receive_files"} /\ "direct" \in Range(last.spawns)) =>
        last.result # "raised"

\* C6, as claimed: any two consecutive get_devices() calls made while the binary
\* is absent produce exactly one missing-binary notification between them.
\* Stated for calls that end normally.
C6_ExactlyOneWarning ==
    [][(/\ GetStarts /\ last.op = "get_devices" /\ last.path = "missing"
        /\ last.result = "returned"
        /\ last'.path = "missing" /\ last'.result # "raised") =>
          Len(last.notes) + Len(last'.notes) = 1]_vars

\* C6, amended: two consecutive get_devices() calls made while the binary is
\* absent produce at most one missing-binary notification between them, and a
\* call that finds the binary absent when none was emitted since the last
\* successful refresh emits it, or ends with the exception of _notify.
C6_AtMostOneWarning ==
    [][/\ (/\ GetStarts /\ last.op = "get_devices" /\ last.path = "missing"
           /\ last'.path = "missing") =>
             Len(last.notes) + Len(last'.notes) <= 1
       /\ (GetStarts /\ hist.streak >= 0 /\ last'.path = "missing") =>
             hist.streak + Len(last'.notes) <= 1
       /\ (GetStarts /\ hist.warns = 0 /\ last'.path = "missing") =>
             (last'.notes = <<"missing">> \/ last'.result = "raised")]_vars

\* The second of two calls that found the binary absent emitted nothing, the
\* first having emitted the notification.
C6_Witness ==
    /\ last.op = "get_devices" /\ last.path = "missing" /\ last.result = "returned"
    /\ last.notes = <<>> /\ hist.streak = 1 /\ tailscale_missing_warned

\* C7, as claimed: every maximal run of get_devices() calls that find the binary
\* absent, ended by a call that finds it present, emits exactly one
\* missing-binary notification.  Stated for runs whose last call returned normally.
C7_OnePerStreak ==
    [][(/\ hist.streak >= 0 /\ hist'.streak < 0
        /\ last.op = "get_devices" /\ last.path = "missing"
        /\ last.result = "returned") =>
          hist.streak = 1]_vars

\* C7, amended: between two successful refreshes at most one missing-binary
\* notification is emitted, and one has been emitted whenever a call that found
\* the binary absent returns; each such call leaves the snapshot as it was and
\* returns its list.
C7_OnePerRefreshPeriod ==
    [][/\ hist'.warns <= 1
       /\ (GetStep /\ last'.path = "missing") =>
             /\ devices_cache' = devices_cache
             /\ last_cache_time' = last_cache_time
             /\ (last'.result = "returned" =>
                    hist'.warns = 1 /\ last'.ret = devices_cache)]_vars

\* A run of calls that found the binary absent emitted nothing, the flag being
\* still set from the run before it.
C7_Witness ==
    /\ last.op = "get_devices" /\ last.path = "missing" /\ last.result = "returned"
    /\ hist.streak = 0 /\ hist.warns = 1

\* C8. After invalidate_cache() the next get_devices() call never takes the
\* cache-hit path, whatever the clock reads and whatever list is stored.
C8_InvalidateForcesRefresh ==
    [][(GetStarts /\ last.op = "invalidate_cache") => last'.path # "hit"]_vars

\* C9. send_files([], target) emits no notification, attempts no spawn and
\* leaves all state unchanged, for every target.
C9_EmptySendIsNoop ==
    [][(last' # last /\ last'.op = "send_files" /\ last'.npaths = 0) =>
          /\ last'.notes = <<>> /\ last'.spawns = <<>> /\ last'.child = "none"
          /\ last'.result = "returned"
          /\ UNCHANGED <<cacheVars, now, pc, kont, hist>>]_vars

\* send_files([], target) has returned, with a list in the cache.
C9_Witness ==
    /\ last.op = "send_files" /\ last.npaths = 0 /\ last.result = "returned"
    /\ last.host \in Hosts /\ devices_cache # <<>> /\ pc = "idle"

C11_NotifyNeverPropagates ==
    last.result = "raised" => (last.path = "badshape" \/ last.spawns # <<>>)

\* The peer records of a status object.
PeersOf(st) == Range(Get(st, "Peer", <<>>))

IsIngress(data) == Get(data, "HostName", <<>>) = IngressHostName

\* The latest call is a get_devices() call that completed a refresh from `st`.
RefreshedFrom(st) ==
    /\ last.op = "get_devices" /\ last.path = "ok" /\ last.result = "returned"
    /\ st \in last.status

\* C12. Owner filtering: a non-ingress peer is excluded from the built list if and
\* only if an owner identifier is present on both the self-record and the peer
\* record and the two differ.
C12_OwnerFilter ==
    \A st \in WellFormed : RefreshedFrom(st) =>
        \A data \in PeersOf(st) : ~IsIngress(data) =>
            LET self == Get(st, "Self", <<>>)
            IN  (Item(data) \notin Range(last.ret)) <=>
                    (/\ "UserID" \in DOMAIN self
                     /\ "UserID" \in DOMAIN data
                     /\ self["UserID"] # data["UserID"])

\* The devices that the ingress peers of the status objects would give.
IngressItems ==
    {Item(data) : data \in {d \in UNION {PeersOf(st) : st \in WellFormed} : IsIngress(d)}}

\* C13. Ingress-node filtering: after a successful refresh no device of the
\* stored or returned list derives from a peer whose hostname is
\* "funnel-ingress-node", whatever its DNS name, owner, OS or online flag; and
\* the stored list never holds such a device.
C13_NoIngressDevice ==
    /\ \A st \in WellFormed : RefreshedFrom(st) =>
           \A data \in PeersOf(st) : IsIngress(data) =>
               Item(data) \notin Range(last.ret) \cup Range(devices_cache)
    /\ Range(devices_cache) \cap IngressItems = {}
    /\ Range(last.ret) \cap IngressItems = {}

\* A refresh from a status object with an ingress peer of the caller's own
\* owner, online, has stored and returned the other devices.
C13_Witness ==
    /\ RefreshedFrom(StatusMany) /\ \E data \in PeersOf(StatusMany) : IsIngress(data)
    /\ last.ret # <<>> /\ devices_cache = last.ret

\* Online devices first, then by display name ascending, compared case-insensitively.
Ordered(list) ==
    \A i, j \in DOMAIN list : i < j =>
        /\ list[i].is_online \/ ~list[j].is_online
        /\ list[i].is_online = list[j].is_online =>
               ~StrLess(Lower(list[j].hostname), Lower(list[i].hostname))

\* C14. Ordering invariant: in every reachable state the stored device list, and
\* every list get_devices() returned, is ordered online-first, then by display
\* name ascending compared case-insensitively.
C14_Ordered ==
    /\ Ordered(devices_cache)
    /\ last.op = "get_devices" => Ordered(last.ret)

\* A failed refresh has returned a stored list of three devices whose order
\* differs from the payload's and from the case-sensitive one ("a" before "B").
C14_Witness ==
    /\ last.op = "get_devices" /\ last.path \in FailPaths /\ last.result = "returned"
    /\ last.ret = devices_cache /\ Len(devices_cache) = 3
    /\ devices_cache[1].hostname = Str_a /\ devices_cache[2].hostname = Str_B
    /\ ~devices_cache[3].is_online

\* C15. The warn-once flag goes from set to clear only in a get_devices() call that
\* completes a successful refresh: cache hits, binary-missing calls, failed
\* refreshes, invalidate_cache(), send_files(), receive_files() and the passage
\* of time leave a set flag set.
C15_ClearedOnlyBySuccess ==
    [][(tailscale_missing_warned /\ ~tailscale_missing_warned') =>
          /\ GetStep /\ last'.path = "ok" /\ last'.queries = 1
          /\ last'.result = "returned"]_vars

\* The binary is back but its status query failed: the flag set by the earlier
\* missing-binary warning is still set after the call.
C15_Witness ==
    /\ last.op = "get_devices" /\ last.path \in FailPaths /\ last.result = "returned"
    /\ tailscale_missing_warned /\ hist.warns = 1

\* An invalidate_cache() call that is a step of the state.
InvalidateStep ==
    /\ last'.op = "invalidate_cache"
    /\ last' # last \/ last_cache_time' # last_cache_time

\* C16. invalidate_cache() changes only the capture time: the stored list and the
\* warn-once flag are unchanged, no command is run and no notification emitted,
\* and a get_devices() call that fails right after it returns the stored list.
C16_InvalidateFrame ==
    [][/\ InvalidateStep =>
             /\ last_cache_time' = 0
             /\ UNCHANGED <<devices_cache, tailscale_missing_warned, now, pc, kont>>
             /\ last'.queries = 0 /\ last'.notes = <<>> /\ last'.spawns = <<>>
             /\ last'.child = "none" /\ last'.result = "returned"
       /\ (GetStarts /\ last.op = "invalidate_cache" /\ last'.path \in FailPaths) =>
             /\ last'.queries = 1
             /\ devices_cache' = devices_cache
             /\ last'.result = "returned" => last'.ret = devices_cache]_vars

\* After an invalidation of a non-empty cache, a refresh that failed has
\* returned the list stored before it.
C16_Witness ==
    /\ last.op = "get_devices" /\ last.path \in FailPaths /\ last.result = "returned"
    /\ last.ret # <<>> /\ last.ret = devices_cache
    /\ last_cache_time = 0 /\ hist.fresh < 0

\* C17. Cache hit: a get_devices() call made with a non-empty stored list whose
\* capture time is less than TTL before the call returns that list, issues no
\* status query and no notification, whether or not the binary is there, and
\* leaves the list, the capture time and the warn-once flag unchanged.
C17_CacheHitFrame ==
    [][(GetStarts /\ devices_cache # <<>> /\ now - last_cache_time < CACHE_TTL) =>
          /\ last'.path = "hit" /\ last'.result = "returned"
          /\ last'.ret = devices_cache
          /\ last'.queries = 0 /\ last'.notes = <<>> /\ last'.status = {}
          /\ UNCHANGED <<cacheVars, now, pc, kont, hist>>]_vars

\* A call made 10 s after the refresh that stored three devices returned them
\* from the cache.
C17_Witness ==
    /\ last.op = "get_devices" /\ last.path = "hit" /\ last.result = "returned"
    /\ last.ret = devices_cache /\ Len(last.ret) = 3
    /\ last.at = last_cache_time + 10

\* The latest call is a send_files() call with paths or a receive_files() call.
DispatchCall ==
    \/ last.op = "send_files" /\ last.npaths > 0
    \/ last.op = "receive_files"

\* C18. Supervised-then-fallback dispatch: every send_files() call with paths and
\* every receive_files() call emits exactly one notification, before any launch
\* is attempted; it attempts the supervised launch first and once, then the
\* direct spawn only if systemd-run was not found; so the command is launched at
\* most once, and a systemd-run that exits with an error is not reported.
C18_SupervisedThenFallback ==
    DispatchCall =>
        /\ last.spawns # <<>> => Len(last.notes) = 1
        /\ last.result \in {"returned", "raised"} =>
               /\ Len(last.notes) = 1
               /\ last.spawns \in {<<"supervised">>, <<"supervised", "direct">>}

\* C19. The caller waits for no external process but the status query: emitting a
\* notification and dispatching a command never wait for systemd-run to exit.
C19_NeverWaitsForLauncher == pc \notin {"notify", "dispatch"}

\* C20. No negative caching and no retry inside a call: a get_devices() call
\* issues at most one status query; a failed refresh leaves the capture time
\* unchanged and emits exactly one failure notification; and the get_devices()
\* call that follows a failed refresh issues a new query if the binary is there.
C20_NoNegativeCaching ==
    [][GetStarts =>
          /\ last'.queries <= 1
          /\ last'.path \in FailPaths =>
                 /\ last_cache_time' = last_cache_time
                 /\ last'.notes = <<last'.path>>
          /\ (last.op = "get_devices" /\ last.path \in FailPaths
              /\ last'.path # "missing") => last'.queries = 1]_vars

====
